---- MODULE Spec2Model ----
(***************************************************************************)
(* Job orchestration of app/services/job_manager.py and its HTTP routes    *)
(* in app/api/jobs_routes.py: the job registry, the FIFO dispatch queue,   *)
(* the worker loops, soft cancel and hard kill.                            *)
(*                                                                         *)
(* Scheduling model.  The routes, the worker loops and the per-job         *)
(* asyncio task run on one event loop: a handler runs without              *)
(* interleaving from one suspending await to the next, so each action      *)
(* below is one such segment.  The processor (work-function) runs in an    *)
(* executor thread and interleaves with the event loop at every step of    *)
(* its progress callback.                                                  *)
(***************************************************************************)
EXTENDS Integers, Sequences, FiniteSets, TLC

\* ---- bounds of the model ----
MaxSubmissions == 2
MaxConcurrent == 2
MaxReports == 1
MaxKillCalls == 1
MaxTicks == 1
MaxJobs == 2
\* bounds of the specification with event streams
MaxStreams == 1
MaxHeartbeats == 1
MaxStreamJobs == 1
MaxRejections == 1
MaxSubscribers == 2

\* ---- program constants ----
max_age == 3600

VARIABLES
    now,               \* time.time()
    max_concurrent,    \* JobManager._max_concurrent
    max_jobs,          \* JobManager._max_jobs
    job,               \* every Job object ever created, by id (1..Len(job))
    jobs,              \* JobManager._jobs: the ids in the registry
    queue,             \* JobManager._queue: ids of the queued (job, processor) pairs
    queue_created,     \* JobManager._queue is not None
    processing_count,  \* JobManager._processing_count
    workers,           \* JobManager._workers: each worker loop's position
    workers_started,   \* JobManager._workers_started
    task,              \* state of the asyncio task process_with_cancellation(), by job
    thread,            \* state of the executor thread running the processor, by job
    reports,           \* progress_callback calls the processor has made, by job
    invocations,       \* number of times the processor was invoked, by job
    kill_wait,         \* kill_job calls suspended in asyncio.wait_for, by job
    ticks,             \* number of times the clock has advanced
    processing_order,  \* history: ids in the order they entered PROCESSING
    evicted,           \* history: ids that _cleanup_old_jobs removed from the registry
    callbacks,         \* Job._progress_callbacks: the streams registered, in order, by job
    cb_iter,           \* position of the executor thread in the for loop of update_progress, by job (0: not in it)
    cb_hist,           \* history: the callbacks at the start of that loop and the ones it called, by job
    rejected,          \* history: number of POST /jobs requests answered with an error
    streams            \* the GET /jobs/{id}/stream connections, in the order they were opened

vars == <<now, max_concurrent, max_jobs, callbacks, cb_iter, cb_hist, rejected, job, jobs, queue, queue_created, processing_count,
          workers, workers_started, task, thread, reports, invocations,
          kill_wait, ticks, processing_order, evicted, streams>>

Ids == 1..MaxSubmissions

\* ---- JobStatus ----
TerminalStatuses == {"completed", "failed", "cancelled", "killed"}

\* ---- values the processor produces ----
ProcessorResult == "audio"
ProcessorError == "boom"
ReportInputs == {<<"run", 50, "working">>}

\* done states of the asyncio task
TaskDone == {"returned", "raised", "job_cancelled_start", "job_cancelled_run", "cancelled"}

\* an HTTP reply: status code, and the job statuses it names
Reply(code, prev, st) == [code |-> code, previous_status |-> prev, status |-> st]

\* ---- Job ----
NewJob ==
    [status |-> "pending", created_at |-> now, updated_at |-> now,
     progress |-> [stage |-> "created", percent |-> 0, message |-> "Job creado",
                   timestamp |-> now],
     result |-> "None", error |-> "None", cancelled |-> FALSE, has_task |-> FALSE]

update_progress_stale(r, stage, percent, message) ==
    [r EXCEPT !.progress = [stage |-> stage, percent |-> percent,
                            message |-> message, timestamp |-> now]]

\* ---- Job.update_progress: the progress snapshot and updated_at it sets ----
update_progress(r, stage, percent, message) ==
    [r EXCEPT !.progress = [stage |-> stage, percent |-> percent,
                            message |-> message, timestamp |-> now],
              !.updated_at = now]

\* Job.update_progress called on the event loop: each on_progress callback that
\* stream_progress registered for the job queues the new progress for its stream
\* (called from the executor thread, on_progress finds no current event loop in
\* asyncio.get_event_loop(), logs the error and queues nothing: ProgressWrite
\* leaves the streams as they are)
NotifyTwice(ss, j, stage) ==
    [s \in DOMAIN ss |->
        IF ss[s].job = j /\ ss[s].pc \in {"loop", "waiting"}
          THEN [ss[s] EXCEPT !.queue = Append(Append(@, stage), stage)]
        ELSE ss[s]]

Notify(ss, j, stage) ==
    [s \in DOMAIN ss |->
        IF ss[s].job = j /\ ss[s].pc \in {"loop", "waiting"}
          THEN [ss[s] EXCEPT !.queue = Append(@, stage)]
        ELSE ss[s]]

\* Job.update_progress, as each stream of the job sees it: the stages reported
\* for the job while the stream's callback is registered, in the order of the
\* calls, whichever thread made them
Reported(ss, j, stage) ==
    [s \in DOMAIN ss |->
        IF ss[s].job = j /\ ss[s].pc \in {"loop", "waiting"}
          THEN [ss[s] EXCEPT !.reported = Append(@, stage)]
        ELSE ss[s]]

is_cancelled(r) == r.cancelled \/ r.status \in {"cancelled", "killed"}

request_cancellation(r) == [r EXCEPT !.cancelled = TRUE]

\* ---- JobManager.__init__ ----
Init ==
    /\ now = 0
    /\ max_concurrent \in 1..MaxConcurrent
    /\ max_jobs \in 1..MaxJobs
    /\ job = <<>>
    /\ jobs = {}
    /\ queue = <<>>
    /\ queue_created = FALSE
    /\ processing_count = 0
    /\ workers = <<>>
    /\ workers_started = FALSE
    /\ task = <<>>
    /\ thread = <<>>
    /\ reports = <<>>
    /\ invocations = <<>>
    /\ kill_wait = <<>>
    /\ ticks = 0
    /\ processing_order = <<>>
    /\ evicted = {}
    /\ rejected = 0
    /\ callbacks = <<>>
    /\ cb_iter = <<>>
    /\ cb_hist = <<>>
    /\ streams = <<>>

\* ---- JobManager._start_workers ----
NewWorkers == [i \in 1..max_concurrent |-> [pc |-> "get", job |-> 0]]

start_workers_unguarded(ws) == ws \o NewWorkers

start_workers(ws) == IF workers_started THEN ws ELSE ws \o NewWorkers

EvictableNone == {}

\* ---- JobManager._cleanup_old_jobs ----
Evictable ==
    {i \in jobs : job[i].status \in TerminalStatuses /\ now - job[i].updated_at > max_age}

cleanup_old_jobs(reg) == reg \ Evictable

create_job_evicting(reg, id) == cleanup_old_jobs(reg) \cup {id}

\* ---- JobManager.create_job ----
create_job(reg, id) ==
    (IF Cardinality(reg) >= max_jobs THEN cleanup_old_jobs(reg) ELSE reg) \cup {id}

\* no loop over the callbacks has been started
NoReport == [begin |-> <<>>, called |-> <<>>]

\* ---- the job types a POST /jobs request may name ----
JobTypes == {"custom_voice", "echo"}

\* ---- JOB_PROCESSORS: the job types that have a processor ----
JOB_PROCESSORS ==
    {"custom_voice", "voice_design", "voice_clone_url", "voice_clone_file",
     "cloned_voice_generate"}

\* ---- get_processor: the processor of the type, or the ValueError it raises ----
get_processor(t) == IF t \in JOB_PROCESSORS THEN t ELSE "ValueError"

\* ---- CreateJobRequest.validate_job_type ----
valid_types ==
    {"custom_voice", "voice_design", "voice_clone_url", "voice_clone_file",
     "cloned_voice_generate"}

validate_job_type_any(t) == TRUE

validate_job_type(t) == t \in valid_types

\* ---- POST /jobs: the reply ----
create_job_reply(t) ==
    IF ~validate_job_type(t) THEN Reply(422, "none", "none")
    ELSE IF get_processor(t) = "ValueError" THEN Reply(400, "none", "none")
    ELSE Reply(200, "none", "pending")

\* ---- POST /jobs: a request that passed validation; the body of the route ----
\* (the job is created before get_processor is called, and queued after it)
Submit ==
    /\ Len(job) < MaxSubmissions
    /\ \E t \in JobTypes :
        /\ validate_job_type(t)
        /\ LET id == Len(job) + 1 IN
            /\ workers' = start_workers(workers)
            /\ workers_started' = TRUE
            /\ queue_created' = TRUE
            /\ job' = Append(job, NewJob)
            /\ jobs' = create_job(jobs, id)
            /\ IF get_processor(t) = "ValueError"
                 THEN /\ queue' = queue
                      /\ rejected' = rejected + 1
                 ELSE /\ queue' = Append(queue, id)
                      /\ rejected' = rejected
            /\ task' = Append(task, "none")
            /\ thread' = Append(thread, "none")
            /\ reports' = Append(reports, 0)
            /\ invocations' = Append(invocations, 0)
            /\ kill_wait' = Append(kill_wait, 0)
            /\ evicted' = evicted \cup (jobs \ create_job(jobs, id))
            /\ callbacks' = Append(callbacks, <<>>)
            /\ cb_iter' = Append(cb_iter, 0)
            /\ cb_hist' = Append(cb_hist, NoReport)
    /\ UNCHANGED <<now, max_concurrent, max_jobs, streams, processing_count, ticks, processing_order>>

\* ---- POST /jobs: a request that fails validation is answered before the body ----
SubmitRejected ==
    /\ rejected < MaxRejections
    /\ \E t \in JobTypes : ~validate_job_type(t)
    /\ rejected' = rejected + 1
    /\ UNCHANGED <<now, max_concurrent, max_jobs, callbacks, cb_iter, cb_hist, evicted, streams, job, jobs, queue, queue_created,
                   processing_count, workers, workers_started, task, thread, reports,
                   invocations, kill_wait, ticks, processing_order>>

\* ---- asyncio.Queue.get: the position of the item it removes ----
QueueGetIndexLast(q) == Len(q)

QueueGetIndex(q) == 1

QueueGetLast(q) == q[Len(q)]

QueueGet(q) == q[QueueGetIndex(q)]

QueueRestKeep(q) == q

QueueRest(q) == [i \in 1..(Len(q) - 1) |-> IF i < QueueGetIndex(q) THEN q[i] ELSE q[i + 1]]

\* ---- JobManager._worker_loop: from queue.get() to the await of the job's task ----
WorkerGet(w) ==
    /\ workers[w].pc = "get"
    /\ queue # <<>>
    /\ LET j == QueueGet(queue) IN
        /\ queue' = QueueRest(queue)
        /\ processing_count' = processing_count + 1
        /\ job' = [job EXCEPT ![j].has_task = TRUE]
        /\ task' = [task EXCEPT ![j] = "created"]
        /\ workers' = [workers EXCEPT ![w] = [pc |-> "await", job |-> j]]
    /\ UNCHANGED <<now, max_concurrent, max_jobs, callbacks, cb_iter, cb_hist, rejected, evicted, streams, jobs, queue_created, workers_started, thread,
                   reports, invocations, kill_wait, ticks, processing_order>>

StartCheckMissing(r) == FALSE

\* the check process_with_cancellation makes before it starts the processor
StartCheck(r) == is_cancelled(r)

\* ---- process_with_cancellation: up to the await of run_in_executor ----
TaskStart(j) ==
    /\ task[j] = "created"
    /\ IF StartCheck(job[j])
         THEN /\ task' = [task EXCEPT ![j] = "job_cancelled_start"]
              /\ UNCHANGED <<job, thread, invocations, processing_order, streams>>
         ELSE /\ job' = [job EXCEPT ![j] =
                    update_progress([job[j] EXCEPT !.status = "processing"],
                                    "starting", 0, "Iniciando procesamiento...")]
              /\ task' = [task EXCEPT ![j] = "running"]
              /\ thread' = [thread EXCEPT ![j] = "running"]
              /\ invocations' = [invocations EXCEPT ![j] = @ + 1]
              /\ processing_order' = Append(processing_order, j)
              /\ streams' = Notify(Reported(streams, j, "starting"), j, "starting")
    /\ UNCHANGED <<now, max_concurrent, max_jobs, callbacks, cb_iter, cb_hist, rejected, evicted, jobs, queue, queue_created, processing_count,
                   workers, workers_started, reports, kill_wait, ticks>>

DeliverNever(t, outcome) == t

\* the processor's outcome reaches the task only while the task still awaits it
Deliver(t, outcome) == IF t = "running" THEN outcome ELSE t

\* ---- progress_callback, first half: the cancellation check ----
ProgressCheck(j) ==
    /\ thread[j] = "running"
    /\ reports[j] < MaxReports
    /\ IF is_cancelled(job[j])
         THEN \* JobCancellationError propagates out of the processor
              /\ thread' = [thread EXCEPT ![j] = "done"]
              /\ task' = [task EXCEPT ![j] = Deliver(@, "job_cancelled_run")]
         ELSE /\ thread' = [thread EXCEPT ![j] = "reporting"]
              /\ UNCHANGED task
    /\ UNCHANGED <<now, max_concurrent, max_jobs, callbacks, cb_iter, cb_hist, rejected, evicted, streams, job, jobs, queue, queue_created,
                   processing_count, workers, workers_started, reports, invocations,
                   kill_wait, ticks, processing_order>>

\* ---- progress_callback, second half: Job.update_progress, up to its for loop ----
\* (over an empty list the loop does nothing and the call is over)
ProgressWrite(j) ==
    /\ thread[j] = "reporting"
    /\ \E p \in ReportInputs :
          /\ job' = [job EXCEPT ![j] = update_progress(@, p[1], p[2], p[3])]
          /\ streams' = Reported(streams, j, p[1])
    /\ reports' = [reports EXCEPT ![j] = @ + 1]
    /\ IF callbacks[j] = <<>>
         THEN /\ thread' = [thread EXCEPT ![j] = "running"]
              /\ UNCHANGED <<cb_iter, cb_hist>>
         ELSE /\ thread' = [thread EXCEPT ![j] = "notifying"]
              /\ cb_iter' = [cb_iter EXCEPT ![j] = 1]
              /\ cb_hist' = [cb_hist EXCEPT ![j] = [begin |-> callbacks[j], called |-> <<>>]]
    /\ UNCHANGED <<now, max_concurrent, max_jobs, callbacks, rejected, evicted, jobs, queue, queue_created, processing_count,
                   workers, workers_started, task, invocations, kill_wait, ticks,
                   processing_order>>

\* ---- Job.update_progress in the executor thread: one turn of its for loop ----
\* (the list iterator reads the list as it is now, at the position it has reached;
\* the callback it calls fails to find an event loop and queues nothing)
CallbackStep(j) ==
    /\ thread[j] = "notifying"
    /\ IF cb_iter[j] <= Len(callbacks[j])
         THEN /\ cb_hist' = [cb_hist EXCEPT ![j].called = Append(@, callbacks[j][cb_iter[j]])]
              /\ cb_iter' = [cb_iter EXCEPT ![j] = @ + 1]
              /\ UNCHANGED thread
         ELSE /\ cb_iter' = [cb_iter EXCEPT ![j] = 0]
              /\ thread' = [thread EXCEPT ![j] = "running"]
              /\ UNCHANGED cb_hist
    /\ UNCHANGED <<now, max_concurrent, max_jobs, callbacks, rejected, evicted, streams, job, jobs, queue, queue_created,
                   processing_count, workers, workers_started, task, reports,
                   invocations, kill_wait, ticks, processing_order>>

\* ---- the processor returns its result ----
ProcessorReturn(j) ==
    /\ thread[j] = "running"
    /\ thread' = [thread EXCEPT ![j] = "done"]
    /\ task' = [task EXCEPT ![j] = Deliver(@, "returned")]
    /\ UNCHANGED <<now, max_concurrent, max_jobs, callbacks, cb_iter, cb_hist, rejected, evicted, streams, job, jobs, queue, queue_created,
                   processing_count, workers, workers_started, reports, invocations,
                   kill_wait, ticks, processing_order>>

\* ---- the processor raises an error of its own ----
ProcessorRaise(j) ==
    /\ thread[j] = "running"
    /\ thread' = [thread EXCEPT ![j] = "done"]
    /\ task' = [task EXCEPT ![j] = Deliver(@, "raised")]
    /\ UNCHANGED <<now, max_concurrent, max_jobs, callbacks, cb_iter, cb_hist, rejected, evicted, streams, job, jobs, queue, queue_created,
                   processing_count, workers, workers_started, reports, invocations,
                   kill_wait, ticks, processing_order>>

TaskCancelledAfterThread(j) ==
    /\ task[j] = "cancelling"
    /\ thread[j] = "done"
    /\ task' = [task EXCEPT ![j] = "cancelled"]
    /\ UNCHANGED <<now, max_concurrent, max_jobs, callbacks, cb_iter, cb_hist, rejected, evicted, streams, job, jobs, queue, queue_created,
                   processing_count, workers, workers_started, thread, reports,
                   invocations, kill_wait, ticks, processing_order>>

\* ---- the event loop throws CancelledError into a task that was cancel()ed ----
TaskCancelled(j) ==
    /\ task[j] = "cancelling"
    /\ task' = [task EXCEPT ![j] = "cancelled"]
    /\ UNCHANGED <<now, max_concurrent, max_jobs, callbacks, cb_iter, cb_hist, rejected, evicted, streams, job, jobs, queue, queue_created,
                   processing_count, workers, workers_started, thread, reports,
                   invocations, kill_wait, ticks, processing_order>>

JobCancellationMessage(t) ==
    IF t = "job_cancelled_start" THEN "Job cancelado antes de iniciar"
    ELSE "Job cancelado durante el procesamiento"

FinishJobErrorLost(r, t) ==
    [update_progress([r EXCEPT !.status = IF t = "returned" THEN "completed" ELSE "failed"],
                     "error", 0, "Error")
        EXCEPT !.has_task = FALSE]

\* ---- JobManager._process_job_internal: after the await of the job's task ----
FinishJob(r, t) ==
    LET r1 ==
        CASE t = "returned" ->
               IF is_cancelled(r)
                 THEN update_progress(
                        [r EXCEPT !.status = "killed",
                                  !.error = "Job cancelado durante el procesamiento"],
                        "killed", 0, "Job cancelado")
                 ELSE update_progress(
                        [r EXCEPT !.result = ProcessorResult, !.status = "completed"],
                        "completed", 100, "Procesamiento completado")
          [] t = "cancelled" ->
               update_progress(
                 [r EXCEPT !.status = "killed", !.error = "Job matado por el usuario"],
                 "killed", 0, "Job matado")
          [] t \in {"job_cancelled_start", "job_cancelled_run"} ->
               update_progress(
                 [r EXCEPT !.status = "cancelled", !.error = JobCancellationMessage(t)],
                 "cancelled", 0, "Job cancelado")
          [] OTHER ->
               update_progress(
                 [r EXCEPT !.status = "failed", !.error = ProcessorError],
                 "error", 0, "Error: " \o ProcessorError)
    IN [r1 EXCEPT !.has_task = FALSE]

processing_count_after_success(n, t) == IF t = "returned" THEN n - 1 ELSE n

\* ---- JobManager._worker_loop: the finally clause, whatever the job's outcome t ----
processing_count_after(n, t) == n - 1

\* ---- JobManager._worker_loop: from the end of the job to the next suspension ----
\* (queue.get() does not suspend when the queue holds an item)
WorkerFinish(w) ==
    /\ workers[w].pc = "await"
    /\ task[workers[w].job] \in TaskDone
    /\ LET j == workers[w].job
           job1 == [job EXCEPT ![j] = FinishJob(job[j], task[j])]
       IN IF queue = <<>>
            THEN /\ job' = job1
                 /\ processing_count' = processing_count_after(processing_count, task[j])
                 /\ workers' = [workers EXCEPT ![w] = [pc |-> "get", job |-> 0]]
                 /\ UNCHANGED <<queue, task>>
            ELSE LET n == QueueGet(queue) IN
                 /\ job' = [job1 EXCEPT ![n].has_task = TRUE]
                 /\ processing_count' = processing_count_after(processing_count, task[j]) + 1
                 /\ queue' = QueueRest(queue)
                 /\ task' = [task EXCEPT ![n] = "created"]
                 /\ workers' = [workers EXCEPT ![w] = [pc |-> "await", job |-> n]]
    /\ LET j == workers[w].job IN
         LET stage == FinishJob(job[j], task[j]).progress.stage
         IN streams' = Notify(Reported(streams, j, stage), j, stage)
    /\ UNCHANGED <<now, max_concurrent, max_jobs, callbacks, cb_iter, cb_hist, rejected, evicted, jobs, queue_created, workers_started, thread,
                   reports, invocations, kill_wait, ticks, processing_order>>

cancel_record_unflagged(r) ==
    IF r.status = "pending"
      THEN [request_cancellation([r EXCEPT !.status = "cancelled"])
              EXCEPT !.updated_at = now]
    ELSE r

cancel_record_eager(r) ==
    IF r.status # "processing"
      THEN [request_cancellation([r EXCEPT !.status = "cancelled"])
              EXCEPT !.updated_at = now]
    ELSE request_cancellation(r)

\* ---- JobManager.cancel_job: the Job it leaves behind ----
cancel_record(r) ==
    IF r.status = "pending"
      THEN [request_cancellation([r EXCEPT !.status = "cancelled"])
              EXCEPT !.updated_at = now]
    ELSE IF r.status = "processing"
      THEN request_cancellation(r)
    ELSE r

cancel_result_always(r) == TRUE

\* ---- JobManager.cancel_job: its return value ----
cancel_result(r) == r.status \in {"pending", "processing"}

cancel_reply_conflated(j) ==
    IF j \in jobs /\ cancel_result(job[j])
      THEN Reply(200, "none", cancel_record(job[j]).status)
    ELSE Reply(400, "none", "none")

\* ---- POST /jobs/{id}/cancel: the reply ----
cancel_reply(j) ==
    IF j \notin jobs THEN Reply(404, "none", "none")
    ELSE IF cancel_result(job[j])
      THEN Reply(200, "none", cancel_record(job[j]).status)
    ELSE Reply(400, "none", job[j].status)

\* ---- POST /jobs/{id}/cancel ----
cancel_job(j) ==
    /\ job' = IF j \in jobs THEN [job EXCEPT ![j] = cancel_record(@)] ELSE job
    /\ UNCHANGED <<now, max_concurrent, max_jobs, callbacks, cb_iter, cb_hist, rejected, evicted, streams, jobs, queue, queue_created, processing_count,
                   workers, workers_started, task, thread, reports, invocations,
                   kill_wait, ticks, processing_order>>

KillFinalStatesNoCompleted == {"failed", "killed"}

\* the statuses in which kill_job does nothing
KillFinalStates == {"completed", "failed", "killed"}

KillUpgradeStatesNone == {}

\* the statuses kill_job upgrades to KILLED
KillUpgradeStates == {"cancelled"}

\* job._processing_task and not job._processing_task.done()
TaskPending(j) == job[j].has_task /\ task[j] \notin TaskDone

\* kill_job suspends in asyncio.wait_for
KillWaits(j) ==
    /\ j \in jobs
    /\ job[j].status = "processing"
    /\ TaskPending(j)

KilledRecordUnflagged(r, err) ==
    [r EXCEPT !.status = "killed", !.updated_at = now, !.error = err, !.cancelled = FALSE]

KilledRecord(r, err) ==
    [r EXCEPT !.status = "killed", !.updated_at = now, !.error = err]

\* ---- JobManager.kill_job, up to its first suspension: the Job it leaves behind ----
kill_record(j) ==
    LET r == job[j]
        r0 == request_cancellation(r)
    IN IF r.status \in KillFinalStates THEN r
       ELSE IF r.status = "pending"
         THEN KilledRecord(r0, "Job matado por el usuario (estaba en cola)")
       ELSE IF r.status = "processing"
         THEN IF TaskPending(j) THEN r0
              ELSE KilledRecord(r0, "Job matado por el usuario")
       ELSE IF r.status \in KillUpgradeStates
         THEN [r0 EXCEPT !.status = "killed", !.updated_at = now]
       ELSE r0

PreviousStatusAfter(j) == kill_record(j).status

\* the status the kill route reads before it calls kill_job
PreviousStatus(j) == job[j].status

\* ---- POST /jobs/{id}/kill: the reply of a call that does not suspend ----
kill_reply(j) ==
    IF j \notin jobs THEN Reply(404, "none", "none")
    ELSE IF job[j].status \in KillFinalStates
      THEN Reply(400, "none", job[j].status)
    ELSE IF job[j].status \in {"pending", "processing"} \cup KillUpgradeStates
      THEN Reply(200, PreviousStatus(j), kill_record(j).status)
    ELSE Reply(400, "none", "none")

\* ---- POST /jobs/{id}/kill and JobManager.kill_job, up to its first suspension ----
kill_job(j) ==
    /\ IF j \notin jobs
         THEN UNCHANGED <<job, task, kill_wait>>
         ELSE /\ job' = [job EXCEPT ![j] = kill_record(j)]
              /\ IF KillWaits(j)
                   THEN /\ kill_wait[j] < MaxKillCalls
                        /\ task' = [task EXCEPT ![j] = "cancelling"]
                        /\ kill_wait' = [kill_wait EXCEPT ![j] = @ + 1]
                   ELSE UNCHANGED <<task, kill_wait>>
    /\ UNCHANGED <<now, max_concurrent, max_jobs, callbacks, cb_iter, cb_hist, rejected, evicted, streams, jobs, queue, queue_created, processing_count,
                   workers, workers_started, thread, reports, invocations, ticks,
                   processing_order>>

WaitOverTaskDone(j) == task[j] \in TaskDone

\* asyncio.wait_for(asyncio.shield(task), timeout) is over: the task is done, or
\* the caller's timeout (any value >= 0) has elapsed
WaitOver(j) == TRUE

\* ---- JobManager.kill_job after asyncio.wait_for: the Job it leaves behind ----
kill_finish_record_error_only(r) == [r EXCEPT !.error = "Job matado por el usuario"]

kill_finish_record(r) == KilledRecord(r, "Job matado por el usuario")

\* ---- POST /jobs/{id}/kill: the reply of a call that suspended ----
kill_finish_reply(j) ==
    Reply(200, "processing", IF j \in jobs THEN kill_finish_record(job[j]).status
                             ELSE "unknown")

\* ---- JobManager.kill_job after asyncio.wait_for ----
kill_finish(j) ==
    /\ kill_wait[j] > 0
    /\ WaitOver(j)
    /\ job' = [job EXCEPT ![j] = kill_finish_record(@)]
    /\ kill_wait' = [kill_wait EXCEPT ![j] = @ - 1]
    /\ UNCHANGED <<now, max_concurrent, max_jobs, callbacks, cb_iter, cb_hist, rejected, evicted, streams, jobs, queue, queue_created, processing_count,
                   workers, workers_started, task, thread, reports, invocations,
                   ticks, processing_order>>

\* ---- DELETE /jobs/{id}: the reply ----
delete_reply(j) == IF j \in jobs THEN Reply(200, "none", "none")
                   ELSE Reply(404, "none", "none")

delete_job_terminal_only(j) ==
    /\ jobs' = IF j \in jobs /\ job[j].status \in TerminalStatuses THEN jobs \ {j} ELSE jobs
    /\ UNCHANGED <<now, max_concurrent, max_jobs, callbacks, cb_iter, cb_hist, rejected, evicted, streams, job, queue, queue_created,
                   processing_count, workers, workers_started, task, thread, reports,
                   invocations, kill_wait, ticks, processing_order>>

\* ---- DELETE /jobs/{id} and JobManager.delete_job ----
delete_job_dequeuing(j) ==
    /\ jobs' = jobs \ {j}
    /\ queue' = SelectSeq(queue, LAMBDA x : x # j)
    /\ UNCHANGED <<now, max_concurrent, max_jobs, callbacks, cb_iter, cb_hist, rejected, evicted, streams, job, queue_created, processing_count,
                   workers, workers_started, task, thread, reports, invocations,
                   kill_wait, ticks, processing_order>>

delete_job(j) ==
    /\ jobs' = jobs \ {j}
    /\ UNCHANGED <<now, max_concurrent, max_jobs, callbacks, cb_iter, cb_hist, rejected, evicted, streams, job, queue, queue_created, processing_count,
                   workers, workers_started, task, thread, reports, invocations,
                   kill_wait, ticks, processing_order>>

\* ---- GET /jobs/{id}/status: the reply ----
get_job_status(j) == IF j \in jobs THEN Reply(200, "none", job[j].status)
                     ELSE Reply(404, "none", "none")

\* ---- GET /jobs/{id}/stream ----
TerminalEvents == {"completed", "error", "cancelled", "killed"}

Event(type, data) == <<type, data>>

Heartbeats(st) == Cardinality({i \in DOMAIN st.events : st.events[i][1] = "heartbeat"})

Emit(st, e) == [st EXCEPT !.events = Append(@, e)]

NewStream(j) ==
    [job |-> j, pc |-> "opened", queue |-> <<>>, events |-> <<>>, reported |-> <<>>]

\* ---- GET /jobs/{id}/stream: the reply of the route ----
stream_reply(j) == IF j \in jobs THEN Reply(200, "none", "none")
                   ELSE Reply(404, "none", "none")

\* ---- GET /jobs/{id}/stream: the route, up to the StreamingResponse ----
OpenStream(j) ==
    /\ j \in jobs
    /\ streams' = Append(streams, NewStream(j))
    /\ UNCHANGED <<now, max_concurrent, max_jobs, callbacks, cb_iter, cb_hist, rejected, evicted, job, jobs, queue, queue_created,
                   processing_count, workers, workers_started, task, thread, reports,
                   invocations, kill_wait, ticks, processing_order>>

stream_job_progress(j) == Len(streams) < MaxStreams /\ OpenStream(j)

\* ---- Job.add_progress_callback ----
add_progress_callback(cbs, j, s) == [cbs EXCEPT ![j] = Append(@, s)]

\* ---- Job.remove_progress_callback ----
remove_progress_callback(cbs, j, s) ==
    [cbs EXCEPT ![j] = SelectSeq(@, LAMBDA x : x # s)]

StreamStartUnchecked(s) ==
    /\ s \in DOMAIN streams
    /\ streams[s].pc = "opened"
    /\ LET st == streams[s] IN
         streams' = [streams EXCEPT ![s] =
            [Emit(st, Event("progress", job[st.job].progress.stage)) EXCEPT !.pc = "loop"]]
    /\ callbacks' = add_progress_callback(callbacks, streams[s].job, s)
    /\ UNCHANGED <<now, max_concurrent, max_jobs, cb_iter, cb_hist, rejected, evicted, job, jobs, queue, queue_created,
                   processing_count, workers, workers_started, task, thread, reports,
                   invocations, kill_wait, ticks, processing_order>>

\* ---- stream_progress: from its start to the first yield ----
StreamStart(s) ==
    /\ s \in DOMAIN streams
    /\ streams[s].pc = "opened"
    /\ LET st == streams[s] IN
         streams' = [streams EXCEPT ![s] =
            IF st.job \in jobs
              THEN [Emit(st, Event("progress", job[st.job].progress.stage))
                      EXCEPT !.pc = "loop"]
            ELSE [Emit(st, Event("error", "Job no encontrado")) EXCEPT !.pc = "closed"]]
    /\ callbacks' = IF streams[s].job \in jobs
                      THEN add_progress_callback(callbacks, streams[s].job, s)
                    ELSE callbacks
    /\ UNCHANGED <<now, max_concurrent, max_jobs, cb_iter, cb_hist, rejected, evicted, job, jobs, queue, queue_created,
                   processing_count, workers, workers_started, task, thread, reports,
                   invocations, kill_wait, ticks, processing_order>>

StreamContinuesNever(r) == FALSE

\* the condition of the loop of stream_progress
StreamContinues(r) == r.status \in {"pending", "processing"}

StreamEndSilent(st, r) == [st EXCEPT !.pc = "closed"]

\* the stream after the loop: the final event, if the status has one
StreamEnd(st, r) ==
    LET st1 ==
        CASE r.status = "completed" -> Emit(st, Event("completed", r.result))
          [] r.status = "failed" -> Emit(st, Event("error", r.error))
          [] r.status = "cancelled" -> Emit(st, Event("cancelled", "cancelled"))
          [] r.status = "killed" -> Emit(st, Event("killed", r.error))
          [] OTHER -> st
    IN [st1 EXCEPT !.pc = "closed"]

\* the stream takes the head of its queue and yields it as a progress event
StreamNextProgress(st) ==
    [Emit(st, Event("progress", Head(st.queue))) EXCEPT !.queue = Tail(@), !.pc = "loop"]

\* ---- stream_progress resumed after a yield: the loop test and what follows ----
StreamLoop(s) ==
    /\ s \in DOMAIN streams
    /\ streams[s].pc = "loop"
    /\ LET st == streams[s]
           r == job[st.job]
       IN streams' = [streams EXCEPT ![s] =
            IF StreamContinues(r)
              THEN IF st.queue # <<>> THEN StreamNextProgress(st)
                   ELSE [st EXCEPT !.pc = "waiting"]
            ELSE StreamEnd(st, r)]
    /\ callbacks' = IF StreamContinues(job[streams[s].job]) THEN callbacks
                    ELSE remove_progress_callback(callbacks, streams[s].job, s)
    /\ UNCHANGED <<now, max_concurrent, max_jobs, cb_iter, cb_hist, rejected, evicted, job, jobs, queue, queue_created,
                   processing_count, workers, workers_started, task, thread, reports,
                   invocations, kill_wait, ticks, processing_order>>

\* ---- stream_progress: the client goes away and the generator is closed where it
\* is suspended, at a yield or in the wait; its finally clause removes the callback ----
StreamDisconnect(s) ==
    /\ s \in DOMAIN streams
    /\ streams[s].pc \in {"loop", "waiting"}
    /\ streams' = [streams EXCEPT ![s].pc = "closed"]
    /\ callbacks' = remove_progress_callback(callbacks, streams[s].job, s)
    /\ UNCHANGED <<now, max_concurrent, max_jobs, cb_iter, cb_hist, rejected, evicted, job, jobs, queue, queue_created,
                   processing_count, workers, workers_started, task, thread, reports,
                   invocations, kill_wait, ticks, processing_order>>

\* ---- stream_progress: queue.get() returns within the second ----
StreamWake(s) ==
    /\ s \in DOMAIN streams
    /\ streams[s].pc = "waiting"
    /\ streams[s].queue # <<>>
    /\ streams' = [streams EXCEPT ![s] = StreamNextProgress(@)]
    /\ UNCHANGED <<now, max_concurrent, max_jobs, callbacks, cb_iter, cb_hist, rejected, evicted, job, jobs, queue, queue_created,
                   processing_count, workers, workers_started, task, thread, reports,
                   invocations, kill_wait, ticks, processing_order>>

\* ---- stream_progress: asyncio.TimeoutError after one second without an item ----
\* (heartbeats are counted up to MaxHeartbeats while the job is not terminal)
StreamTimeout(s) ==
    /\ s \in DOMAIN streams
    /\ streams[s].pc = "waiting"
    /\ streams[s].queue = <<>>
    /\ \/ Heartbeats(streams[s]) < MaxHeartbeats
       \/ job[streams[s].job].status \in TerminalStatuses
    /\ streams' = [streams EXCEPT ![s] =
                     [Emit(@, Event("heartbeat", "timestamp")) EXCEPT !.pc = "loop"]]
    /\ UNCHANGED <<now, max_concurrent, max_jobs, callbacks, cb_iter, cb_hist, rejected, evicted, job, jobs, queue, queue_created,
                   processing_count, workers, workers_started, task, thread, reports,
                   invocations, kill_wait, ticks, processing_order>>

\* the amounts by which the clock is seen to advance
TickSteps == {max_age, max_age + 1}

\* ---- time passes ----
Tick ==
    /\ ticks < MaxTicks
    /\ \E d \in TickSteps : now' = now + d
    /\ ticks' = ticks + 1
    /\ UNCHANGED <<max_concurrent, max_jobs, callbacks, cb_iter, cb_hist, rejected, evicted, streams, job, jobs, queue, queue_created, processing_count,
                   workers, workers_started, task, thread, reports, invocations,
                   kill_wait, processing_order>>

Next ==
    \/ Submit
    \/ \E w \in DOMAIN workers : WorkerGet(w)
    \/ \E w \in DOMAIN workers : WorkerFinish(w)
    \/ \E j \in DOMAIN job : TaskStart(j)
    \/ \E j \in DOMAIN job : ProgressCheck(j)
    \/ \E j \in DOMAIN job : ProgressWrite(j)
    \/ \E j \in DOMAIN job : ProcessorReturn(j)
    \/ \E j \in DOMAIN job : ProcessorRaise(j)
    \/ \E j \in DOMAIN job : TaskCancelled(j)
    \/ \E j \in Ids : cancel_job(j)
    \/ \E j \in Ids : kill_job(j)
    \/ \E j \in DOMAIN job : kill_finish(j)
    \/ \E j \in Ids : delete_job(j)
    \/ Tick

Spec == Init /\ [][Next]_vars

\* ---- the job manager on a running event loop ----
\* a step of the event loop: a worker loop, a job's task, or a kill call that
\* waits is resumed when it can go on
LoopStep ==
    \/ \E w \in DOMAIN workers : WorkerGet(w)
    \/ \E w \in DOMAIN workers : WorkerFinish(w)
    \/ \E j \in DOMAIN job : TaskStart(j)
    \/ \E j \in DOMAIN job : TaskCancelled(j)
    \/ \E j \in DOMAIN job : kill_finish(j)

\* the steps of the job manager without the clock, which no step of the event
\* loop reads to decide whether it can go on
NextLoop ==
    \/ Submit
    \/ LoopStep
    \/ \E j \in DOMAIN job : ProgressCheck(j)
    \/ \E j \in DOMAIN job : ProgressWrite(j)
    \/ \E j \in DOMAIN job : ProcessorReturn(j)
    \/ \E j \in DOMAIN job : ProcessorRaise(j)
    \/ \E j \in Ids : cancel_job(j)
    \/ \E j \in Ids : kill_job(j)
    \/ \E j \in Ids : delete_job(j)

\* the event loop keeps running; nothing is assumed of the processors or of the
\* clients
SpecLoop == Init /\ [][NextLoop]_vars /\ WF_vars(LoopStep)

\* a step of a processor in its executor thread
ThreadStep ==
    \/ \E j \in DOMAIN job : ProgressCheck(j)
    \/ \E j \in DOMAIN job : ProgressWrite(j)
    \/ \E j \in DOMAIN job : ProcessorReturn(j)
    \/ \E j \in DOMAIN job : ProcessorRaise(j)

\* the event loop keeps running and every processor that was invoked goes on
\* until it returns or raises
SpecFair == Init /\ [][NextLoop]_vars /\ WF_vars(LoopStep) /\ WF_vars(ThreadStep)

\* ---- the job manager with event streams, for at most MaxStreamJobs jobs ----
StreamSubmit == Len(job) < MaxStreamJobs /\ Submit

StreamStep(s) == StreamStart(s) \/ StreamLoop(s) \/ StreamWake(s) \/ StreamTimeout(s)

NextStream ==
    \/ StreamSubmit
    \/ SubmitRejected
    \/ \E w \in DOMAIN workers : WorkerGet(w)
    \/ \E w \in DOMAIN workers : WorkerFinish(w)
    \/ \E j \in DOMAIN job : TaskStart(j)
    \/ \E j \in DOMAIN job : ProgressCheck(j)
    \/ \E j \in DOMAIN job : ProgressWrite(j)
    \/ \E j \in DOMAIN job : CallbackStep(j)
    \/ \E j \in DOMAIN job : ProcessorReturn(j)
    \/ \E j \in DOMAIN job : ProcessorRaise(j)
    \/ \E j \in DOMAIN job : TaskCancelled(j)
    \/ \E j \in Ids : cancel_job(j)
    \/ \E j \in Ids : kill_job(j)
    \/ \E j \in DOMAIN job : kill_finish(j)
    \/ \E j \in Ids : delete_job(j)
    \/ Tick
    \/ \E j \in Ids : stream_job_progress(j)
    \/ \E s \in 1..MaxStreams : StreamStart(s)
    \/ \E s \in 1..MaxStreams : StreamLoop(s)
    \/ \E s \in 1..MaxStreams : StreamWake(s)
    \/ \E s \in 1..MaxStreams : StreamTimeout(s)

\* ---- one job and up to MaxSubscribers streams of its events, whose clients may
\* go away ----
Subscribe(j) == Len(streams) < MaxSubscribers /\ OpenStream(j)

NextCallbacks ==
    \/ StreamSubmit
    \/ \E w \in DOMAIN workers : WorkerGet(w)
    \/ \E w \in DOMAIN workers : WorkerFinish(w)
    \/ \E j \in DOMAIN job : TaskStart(j)
    \/ \E j \in DOMAIN job : ProgressCheck(j)
    \/ \E j \in DOMAIN job : ProgressWrite(j)
    \/ \E j \in DOMAIN job : CallbackStep(j)
    \/ \E j \in DOMAIN job : ProcessorReturn(j)
    \/ \E j \in DOMAIN job : ProcessorRaise(j)
    \/ \E j \in Ids : Subscribe(j)
    \/ \E s \in 1..MaxSubscribers : StreamStart(s)
    \/ \E s \in 1..MaxSubscribers : StreamLoop(s)
    \/ \E s \in 1..MaxSubscribers : StreamWake(s)
    \/ \E s \in 1..MaxSubscribers : StreamTimeout(s)
    \/ \E s \in 1..MaxSubscribers : StreamDisconnect(s)

SpecCallbacks == Init /\ [][NextCallbacks]_vars

\* the event loop resumes a stream whose client keeps reading: after a yield, when
\* an item is queued, and when the one-second timer of the wait expires
SpecStream ==
    Init /\ [][NextStream]_vars /\ \A s \in 1..MaxStreams : WF_vars(StreamStep(s))

(***************************************************************************)
(* Properties                                                              *)
(***************************************************************************)

Processing == {j \in DOMAIN job : job[j].status = "processing"}

\* a job whose cancellation flag is set before its processor was ever invoked
\* keeps the flag and is never invoked
FlaggedNeverInvoked ==
    \A j \in DOMAIN job :
        (job[j].cancelled /\ invocations[j] = 0)
            => (job'[j].cancelled /\ invocations'[j] = 0)

\* C1: with max_concurrent = 1 the jobs enter PROCESSING in the order of their
\* submission (ids are allocated in submission order): no job enters PROCESSING
\* before a job submitted earlier that also enters PROCESSING.
C1_FifoProcessingOrder ==
    max_concurrent = 1 =>
        \A a, b \in DOMAIN processing_order :
            a < b => processing_order[a] < processing_order[b]

C1_Witness ==
    /\ max_concurrent = 1
    /\ Len(processing_order) = 2
    /\ \E j \in DOMAIN job : job[j].status \in {"cancelled", "killed"}

\* C2: in every reachable state the number of jobs whose status is PROCESSING
\* is at most max_concurrent.
C2_MutualExclusion == Cardinality(Processing) <= max_concurrent

C2_Witness ==
    /\ Cardinality(Processing) = max_concurrent
    /\ queue # <<>>
    /\ \E j \in DOMAIN job : j \notin jobs

\* C3: cancel on a PENDING job answers success and leaves the job CANCELLED, and
\* from then on its processor is never invoked, also after a worker has dequeued
\* the pair that is still in the queue.
C3_CancelPending ==
    /\ [](\A j \in jobs :
            job[j].status = "pending" =>
                /\ cancel_result(job[j])
                /\ cancel_reply(j) = Reply(200, "none", "cancelled")
                /\ cancel_record(job[j]).status = "cancelled"
                /\ cancel_record(job[j]).cancelled
                /\ invocations[j] = 0)
    /\ [][FlaggedNeverInvoked]_vars

\* cancelled while queued (cancel_job records no error), then dequeued: the task
\* stopped at its first check and the processor was not invoked
C3_Witness ==
    \E j \in DOMAIN job :
        /\ job[j].status = "cancelled"
        /\ job[j].error = "None"
        /\ task[j] = "job_cancelled_start"
        /\ invocations[j] = 0

\* C4 as claimed: on a job in any terminal status, cancel and kill leave the
\* status unchanged and answer with a rejection that names the status.
C4_TerminalIdempotence_AsClaimed ==
    \A j \in jobs :
        job[j].status \in TerminalStatuses =>
            /\ cancel_record(job[j]).status = job[j].status
            /\ cancel_reply(j) = Reply(400, "none", job[j].status)
            /\ kill_record(j).status = job[j].status
            /\ kill_reply(j) = Reply(400, "none", job[j].status)

\* C4 as amended: on a COMPLETED, FAILED or KILLED job, cancel and kill leave the
\* status unchanged and answer with a rejection that names the status; on a
\* CANCELLED job cancel does the same, while kill changes the status to KILLED
\* and answers success.
C4_TerminalIdempotence ==
    \A j \in jobs :
        /\ job[j].status \in TerminalStatuses =>
             /\ cancel_record(job[j]).status = job[j].status
             /\ cancel_reply(j) = Reply(400, "none", job[j].status)
        /\ job[j].status \in {"completed", "failed", "killed"} =>
             /\ kill_record(j).status = job[j].status
             /\ kill_reply(j) = Reply(400, "none", job[j].status)
        /\ job[j].status = "cancelled" =>
             /\ kill_record(j).status = "killed"
             /\ kill_reply(j).code = 200

C4_Witness ==
    \E i, j \in jobs :
        /\ job[i].status = "cancelled"
        /\ kill_reply(i).code = 200
        /\ job[j].status \in {"completed", "failed"}
        /\ kill_reply(j).code = 400
        /\ cancel_reply(j).code = 400

\* C5: once a job's status is KILLED no later step changes it.
C5_KilledAbsorbing ==
    [][\A j \in DOMAIN job : job[j].status = "killed" => job'[j].status = "killed"]_vars

\* C6: once a job's status is COMPLETED or FAILED no later step changes its
\* status, result or error.
C6_CompletedFailedAbsorbing ==
    [][\A j \in DOMAIN job :
          job[j].status \in {"completed", "failed"} =>
              /\ job'[j].status = job[j].status
              /\ job'[j].result = job[j].result
              /\ job'[j].error = job[j].error]_vars

\* one job completed and one failed, and time has passed since both
C6_Witness ==
    \E i, j \in DOMAIN job :
        /\ job[i].status = "completed"
        /\ job[i].result = ProcessorResult
        /\ job[j].status = "failed"
        /\ job[j].error = ProcessorError
        /\ now > job[i].updated_at
        /\ now > job[j].updated_at

\* C7: kill on a PENDING job sets the cancellation flag, sets the status to
\* KILLED without suspending, answers success with previous_status pending and
\* current_status killed, and the job's processor is never invoked afterwards,
\* also when a worker has dequeued or later dequeues the job.
C7_KillPending ==
    /\ [](\A j \in jobs :
            job[j].status = "pending" =>
                /\ ~KillWaits(j)
                /\ kill_record(j).cancelled
                /\ kill_record(j).status = "killed"
                /\ kill_reply(j) = Reply(200, "pending", "killed")
                /\ invocations[j] = 0)
    /\ [][FlaggedNeverInvoked]_vars

\* killed while queued, then dequeued: the task stopped at its first check
C7_Witness ==
    \E j \in DOMAIN job :
        /\ job[j].status = "killed"
        /\ job[j].error = "Job matado por el usuario (estaba en cola)"
        /\ task[j] = "job_cancelled_start"
        /\ invocations[j] = 0

\* C8: kill on a PROCESSING job always returns: a call that does not suspend
\* leaves the job KILLED with updated_at refreshed, and a call suspended in the
\* wait can always resume (whatever the task and the processor do) and then
\* leaves the job KILLED with updated_at refreshed.
C8_KillProcessing ==
    \A j \in DOMAIN job :
        /\ (j \in jobs /\ job[j].status = "processing" /\ ~KillWaits(j)) =>
             /\ kill_record(j).status = "killed"
             /\ kill_record(j).updated_at = now
        /\ kill_wait[j] > 0 =>
             /\ ENABLED kill_finish(j)
             /\ kill_finish_record(job[j]).status = "killed"
             /\ kill_finish_record(job[j]).updated_at = now

\* the wait ended by timeout while the processor still runs and the task has not
\* unwound; the clock had advanced since the last progress report
C8_Witness ==
    \E j \in DOMAIN job :
        /\ job[j].status = "killed"
        /\ job[j].error = "Job matado por el usuario"
        /\ kill_wait[j] = 0
        /\ task[j] = "cancelling"
        /\ thread[j] = "running"
        /\ job[j].updated_at = now
        /\ now > job[j].progress.timestamp

\* C9: kill on a CANCELLED job changes the status to KILLED without suspending
\* and answers success with previous_status cancelled and current_status killed.
C9_KillCancelled ==
    \A j \in jobs :
        job[j].status = "cancelled" =>
            /\ ~KillWaits(j)
            /\ kill_record(j).status = "killed"
            /\ kill_reply(j) = Reply(200, "cancelled", "killed")

\* a job cancelled while queued (no error recorded) that kill then upgraded
C9_Witness ==
    \E j \in DOMAIN job :
        /\ job[j].status = "killed"
        /\ job[j].error = "None"
        /\ job[j].cancelled

\* C10: kill on a COMPLETED, FAILED or KILLED job answers with a rejection that
\* names the current status and changes no field of the job; it does not suspend
\* and does not touch the job's task.
C10_KillFinal ==
    \A j \in jobs :
        job[j].status \in {"completed", "failed", "killed"} =>
            /\ ~KillWaits(j)
            /\ kill_record(j) = job[j]
            /\ kill_reply(j) = Reply(400, "none", job[j].status)

C10_Witness ==
    \E i, j \in jobs :
        /\ job[i].status = "completed"
        /\ job[j].status = "killed"
        /\ kill_reply(i) = Reply(400, "none", "completed")
        /\ kill_reply(j) = Reply(400, "none", "killed")

\* C11: cancel on a PROCESSING job answers success, sets the cancellation flag
\* and leaves the status PROCESSING; a PROCESSING job becomes CANCELLED only by
\* the worker handling the cancellation signal that the progress callback
\* raised, and the callback raises it only on observing the cancellation.
C11_CancelProcessing ==
    /\ [](\A j \in jobs :
            job[j].status = "processing" =>
                /\ cancel_result(job[j])
                /\ cancel_reply(j) = Reply(200, "none", "processing")
                /\ cancel_record(job[j]).status = "processing"
                /\ cancel_record(job[j]).cancelled)
    /\ [][\A j \in DOMAIN job :
            /\ (job[j].status = "processing" /\ job'[j].status = "cancelled") =>
                  task[j] = "job_cancelled_run"
            /\ (task[j] # "job_cancelled_run" /\ task'[j] = "job_cancelled_run") =>
                  (thread[j] = "running" /\ is_cancelled(job[j]))]_vars

\* cancelled by the flag alone: the callback observed it while the status was
\* still PROCESSING, and the worker then recorded CANCELLED
C11_Witness ==
    \E j \in DOMAIN job :
        /\ job[j].status = "cancelled"
        /\ job[j].error = "Job cancelado durante el procesamiento"
        /\ job[j].cancelled
        /\ invocations[j] = 1

\* C12: a job's status becomes KILLED only as the effect of a kill call on that
\* job: every step that makes the status KILLED is the kill call itself, the
\* resumption of a kill call suspended in its wait, or the worker handling the
\* CancelledError of a task that the kill call cancelled.
C12_KilledOnlyByKill ==
    [][\A j \in DOMAIN job :
          (job[j].status # "killed" /\ job'[j].status = "killed") =>
              \/ (j \in jobs /\ job'[j] = kill_record(j))
              \/ (kill_wait[j] > 0 /\ job'[j] = kill_finish_record(job[j]))
              \/ task[j] = "cancelled"]_vars

\* C13: when the processor of a PROCESSING job returns its result (it never
\* raised the cancellation signal), the worker records COMPLETED with that
\* result, also when the cancellation flag was set after the last callback.
C13_ReturnCompletes ==
    [][\A j \in DOMAIN job :
          (/\ job[j].status = "processing"
           /\ task[j] = "returned"
           /\ job[j].has_task /\ ~job'[j].has_task) =>
              (job'[j].status = "completed" /\ job'[j].result = ProcessorResult)]_vars

\* C14: when a worker receives an error of the processor that is not the
\* cancellation signal, it records FAILED with the error message; no worker loop
\* ends, the other workers' positions are untouched, and the worker takes the
\* head of the queue at once, or waits for the next item when the queue is empty.
C14_FailureIsolation ==
    /\ [](workers_started => Len(workers) = max_concurrent)
    /\ [][\A w \in DOMAIN workers :
            LET j == workers[w].job IN
            (/\ workers[w].pc = "await"
             /\ task[j] = "raised"
             /\ job[j].has_task /\ ~job'[j].has_task) =>
                /\ job'[j].status = "failed"
                /\ job'[j].error = ProcessorError
                /\ DOMAIN workers' = DOMAIN workers
                /\ \A v \in DOMAIN workers \ {w} : workers'[v] = workers[v]
                /\ IF queue = <<>>
                     THEN workers'[w].pc = "get"
                     ELSE /\ workers'[w] = [pc |-> "await", job |-> Head(queue)]
                          /\ task'[Head(queue)] = "created"
                          /\ queue' = Tail(queue)]_vars

\* the single worker recorded a failure and then started the next job
C14_Witness ==
    /\ max_concurrent = 1
    /\ \E i, j \in DOMAIN job :
          /\ job[i].status = "failed"
          /\ job[i].error = ProcessorError
          /\ processing_order = <<i, j>>
          /\ job[j].status \in {"processing", "completed"}

\* C15: a create call removes jobs only when the registry already holds at
\* least max_jobs jobs, and then it removes exactly the jobs in a terminal
\* status whose updated_at lies more than max_age back: never a PENDING or
\* PROCESSING job, never a terminal job of age max_age or less.
C15_Eviction ==
    [][Len(job') = Len(job) + 1 =>
         LET old == {i \in jobs :
                        /\ job[i].status \in {"completed", "failed", "cancelled", "killed"}
                        /\ job[i].updated_at + max_age < now}
         IN /\ Cardinality(jobs) < max_jobs => jobs \subseteq jobs'
            /\ Cardinality(jobs) >= max_jobs => jobs \ jobs' = old
            /\ \A i \in jobs \ jobs' :
                  /\ job[i].status \notin {"pending", "processing"}
                  /\ ~(now - job[i].updated_at <= max_age)
            /\ evicted' = evicted \cup (jobs \ jobs')]_vars

\* one run evicted an old terminal job when the registry was full
C15_Witness ==
    \E i \in evicted :
        /\ i \notin jobs
        /\ Cardinality(jobs) = max_jobs
        /\ job[i].status \in TerminalStatuses

\* C16: after a create call the registry holds at most max_jobs jobs, provided
\* that the jobs of the registry that are not terminal-and-older-than-max_age
\* number less than max_jobs at the time of the call.
C16_SizeBound ==
    [][Len(job') = Len(job) + 1 =>
         LET room == {i \in jobs :
                         /\ job[i].status \in TerminalStatuses
                         /\ now - job[i].updated_at > max_age}
         IN Cardinality(jobs \ room) < max_jobs => Cardinality(jobs') <= max_jobs]_vars

\* the registry was full, the create call evicted the old job and stored the new
C16_Witness ==
    /\ max_jobs = 1
    /\ evicted = {1}
    /\ jobs = {2}
    /\ job[2].status = "pending"

\* C17: delete removes the job from the registry whatever its status and
\* answers success exactly when the id was present; for an absent id it answers
\* not-found and leaves the registry as it is; a step that removes without
\* creating removes one id and changes no Job, queue, task or worker.
C17_Delete ==
    /\ [](\A j \in Ids :
            /\ j \in jobs =>
                  /\ delete_reply(j).code = 200
                  /\ ENABLED (delete_job(j) /\ jobs' = jobs \ {j})
            /\ j \notin jobs =>
                  /\ delete_reply(j).code = 404
                  /\ ~ENABLED (delete_job(j) /\ jobs' # jobs))
    /\ [][(Len(job') = Len(job) /\ jobs' # jobs) =>
            /\ \E j \in jobs : jobs' = jobs \ {j}
            /\ job' = job /\ queue' = queue /\ task' = task /\ workers' = workers]_vars

\* a job deleted while PROCESSING, another one still registered
C17_Witness ==
    \E i, j \in DOMAIN job :
        /\ i \notin jobs /\ i \notin evicted
        /\ job[i].status = "processing"
        /\ j \in jobs
        /\ delete_reply(i).code = 404
        /\ delete_reply(j).code = 200

\* C19 as claimed: for cancel and for kill an unknown id is answered not-found,
\* and a job in any terminal status is answered with the rejection that carries
\* its status.
C19_NotFoundVsRejected_AsClaimed ==
    \A j \in Ids :
        /\ j \notin jobs =>
              /\ cancel_reply(j).code = 404
              /\ kill_reply(j).code = 404
        /\ (j \in jobs /\ job[j].status \in TerminalStatuses) =>
              /\ cancel_reply(j).code = 400 /\ cancel_reply(j).status = job[j].status
              /\ kill_reply(j).code = 400 /\ kill_reply(j).status = job[j].status

\* C19 as amended: for cancel and for kill an unknown id is always answered
\* not-found and a known id never is; cancel on a job in any terminal status,
\* and kill on a COMPLETED, FAILED or KILLED job, are answered with the rejection
\* that carries the current status (kill on a CANCELLED job is a success).
C19_NotFoundVsRejected ==
    \A j \in Ids :
        /\ j \notin jobs =>
              /\ cancel_reply(j) = Reply(404, "none", "none")
              /\ kill_reply(j) = Reply(404, "none", "none")
        /\ j \in jobs =>
              /\ cancel_reply(j).code \in {200, 400}
              /\ kill_reply(j).code \in {200, 400}
        /\ (j \in jobs /\ job[j].status \in TerminalStatuses) =>
              /\ cancel_reply(j).code = 400 /\ cancel_reply(j).status = job[j].status
        /\ (j \in jobs /\ job[j].status \in {"completed", "failed", "killed"}) =>
              /\ kill_reply(j).code = 400 /\ kill_reply(j).status = job[j].status
        /\ (j \in jobs /\ job[j].status = "cancelled") =>
              kill_reply(j).code = 200

\* a deleted job and a registered FAILED job: both calls tell them apart
C19_Witness ==
    \E i, j \in DOMAIN job :
        /\ i \notin jobs
        /\ j \in jobs /\ job[j].status = "failed"
        /\ cancel_reply(i).code = 404 /\ kill_reply(i).code = 404
        /\ cancel_reply(j) = Reply(400, "none", "failed")
        /\ kill_reply(j) = Reply(400, "none", "failed")

\* the events of a stream that tell about its job: all but the heartbeats
JobEvents(st) == SelectSeq(st.events, LAMBDA e : e[1] # "heartbeat")

TerminalCount(st) ==
    Cardinality({i \in DOMAIN st.events : st.events[i][1] \in TerminalEvents})

\* C18: a job that is not in the registry is answered not-found by the status,
\* cancel, kill and stream routes, and a stream that subscribed to it before its
\* removal yields no further progress or final event.
C18_UnobservableAfterRemoval ==
    /\ [](\A j \in Ids :
            j \notin jobs =>
                /\ get_job_status(j).code = 404
                /\ cancel_reply(j).code = 404
                /\ kill_reply(j).code = 404
                /\ stream_reply(j).code = 404)
    /\ [][\A s \in DOMAIN streams :
            (streams[s].pc \in {"loop", "waiting"} /\ streams[s].job \notin jobs) =>
                JobEvents(streams'[s]) = JobEvents(streams[s])]_vars

\* C20: a stream has yielded at most one final event (completed, error,
\* cancelled, killed); it has yielded one exactly when it has ended, and then
\* that event is its last; and a stream in its loop whose job is in a terminal
\* status ends.
C20_StreamEnds ==
    /\ [](\A s \in DOMAIN streams :
            LET st == streams[s] IN
            /\ TerminalCount(st) <= 1
            /\ (TerminalCount(st) = 1) <=> (st.pc = "closed")
            /\ st.pc = "closed" => st.events[Len(st.events)][1] \in TerminalEvents)
    /\ \A s \in 1..MaxStreams :
          (/\ s \in DOMAIN streams
           /\ streams[s].pc \in {"loop", "waiting"}
           /\ job[streams[s].job].status \in TerminalStatuses)
              ~> (s \in DOMAIN streams /\ streams[s].pc = "closed")

\* a stream that waited on a queued job, noticed its cancellation at the
\* heartbeat, yielded the final event and ended
C20_Witness ==
    \E s \in DOMAIN streams :
        /\ streams[s].pc = "closed"
        /\ streams[s].events =
              <<Event("progress", "created"), Event("heartbeat", "timestamp"),
                Event("cancelled", "cancelled")>>

\* the type of the final event that tells a terminal status
FinalEventType(status) ==
    CASE status = "completed" -> "completed"
      [] status = "failed" -> "error"
      [] status = "cancelled" -> "cancelled"
      [] status = "killed" -> "killed"
      [] OTHER -> "none"

\* C21: a stream that starts on a job in a terminal status yields the progress
\* snapshot and enters its loop with nothing queued; a stream in its loop whose
\* job is in a terminal status yields, as its next event, the final event of
\* that status and ends, without waiting for an item or a heartbeat; and a
\* terminal status is never left for a non-terminal one.  Nothing of this
\* depends on a subscriber having existed when the job became terminal.
C21_SubscribeTerminal ==
    [][\A s \in DOMAIN streams :
          LET st == streams[s]
              r == job[st.job]
          IN r.status \in TerminalStatuses =>
               /\ job'[st.job].status \in TerminalStatuses
               /\ (st.pc = "opened" /\ st.job \in jobs /\ streams'[s] # st) =>
                     /\ streams'[s].pc = "loop"
                     /\ streams'[s].queue = <<>>
                     /\ streams'[s].events = <<Event("progress", r.progress.stage)>>
               /\ (st.pc = "loop" /\ (streams'[s].pc # "loop"
                                      \/ streams'[s].events # st.events)) =>
                     /\ streams'[s].pc = "closed"
                     /\ Len(streams'[s].events) = Len(st.events) + 1
                     /\ streams'[s].events[Len(st.events) + 1][1] = FinalEventType(r.status)]_vars

\* subscribed after the job had completed: the snapshot, then the final event
C21_Witness ==
    \E s \in DOMAIN streams :
        /\ streams[s].pc = "closed"
        /\ streams[s].events =
              <<Event("progress", "completed"), Event("completed", ProcessorResult)>>

\* a is b with some elements left out, the others in their order
RECURSIVE IsSubseq(_, _)
IsSubseq(a, b) ==
    IF a = <<>> THEN TRUE
    ELSE IF b = <<>> THEN FALSE
    ELSE IF Head(a) = Head(b) THEN IsSubseq(Tail(a), Tail(b))
    ELSE IsSubseq(a, Tail(b))

\* the stages of the progress events a stream yielded after its snapshot
Delivered(st) ==
    LET later == SelectSeq(SubSeq(st.events, 2, Len(st.events)),
                           LAMBDA e : e[1] = "progress")
    IN [i \in 1..Len(later) |-> later[i][2]]

\* the stream registered its callback while the job was not terminal
AttachedMidFlight(st) ==
    /\ st.events # <<>>
    /\ st.events[1][1] = "progress"
    /\ st.events[1][2] \in {"created", "starting", "run"}

\* C22 (as claimed): a stream that attached while the job was not terminal and
\* has ended has yielded, after its snapshot, a progress event for every update
\* reported for the job since it attached, and its final event comes last.
C22_EveryUpdateDelivered ==
    \A s \in DOMAIN streams :
        LET st == streams[s] IN
        (st.pc = "closed" /\ AttachedMidFlight(st)) =>
            /\ Delivered(st) = st.reported
            /\ st.events[Len(st.events)][1] \in TerminalEvents

\* C23: the progress events a stream yields after its snapshot are updates
\* reported for the job after the stream attached, each yielded once and in the
\* order in which they were reported.
C23_DeliveredInReportOrder ==
    \A s \in DOMAIN streams : IsSubseq(Delivered(streams[s]), streams[s].reported)

\* three updates were reported after the stream attached; the first and the
\* last were yielded, in that order
C23_Witness ==
    \E s \in DOMAIN streams :
        /\ streams[s].reported = <<"starting", "run", "completed">>
        /\ Delivered(streams[s]) = <<"starting", "completed">>

\* C24: the route answers 404 for an id that is not in the registry; a stream
\* that starts for an id that is not in the registry (it was removed after the
\* route's lookup) yields one error event and ends; and such a stream never has
\* more than that one event, nor anything queued or reported to it, whatever
\* happens to the job afterwards: no callback was registered for it.
C24_UnknownJobStream ==
    /\ [](/\ \A j \in Ids \ jobs : stream_reply(j).code = 404
          /\ \A s \in DOMAIN streams :
                LET st == streams[s] IN
                (st.events # <<>> /\ st.events[1][1] = "error") =>
                    /\ st.events = <<Event("error", "Job no encontrado")>>
                    /\ st.pc = "closed"
                    /\ st.queue = <<>>
                    /\ st.reported = <<>>)
    /\ [][\A s \in DOMAIN streams :
            (streams[s].pc = "opened" /\ streams[s].job \notin jobs
                                      /\ streams'[s] # streams[s]) =>
                streams'[s] = [NewStream(streams[s].job) EXCEPT
                                  !.pc = "closed",
                                  !.events = <<Event("error", "Job no encontrado")>>]]_vars

\* the stream of a removed job ended with its error event, and the job, which a
\* worker went on to complete, queued nothing for it
C24_Witness ==
    \E s \in DOMAIN streams :
        /\ streams[s].events = <<Event("error", "Job no encontrado")>>
        /\ streams[s].pc = "closed"
        /\ streams[s].job \notin jobs
        /\ job[streams[s].job].status = "completed"

\* C25 (as claimed): a job that was never cancelled or killed, whose processor
\* reported one progress update and returned, has completed with the processor's
\* result, which get_status shows; and a stream that attached before the job
\* started and has ended has yielded the reported progress event and, as its
\* last event, completed with that result.
C25_EndToEnd ==
    \A j \in jobs :
        (/\ job[j].status = "completed"
         /\ ~job[j].cancelled
         /\ reports[j] = 1) =>
            /\ job[j].result = ProcessorResult
            /\ get_job_status(j) = Reply(200, "none", "completed")
            /\ \A s \in DOMAIN streams :
                  LET st == streams[s] IN
                  (/\ st.job = j
                   /\ st.pc = "closed"
                   /\ st.events[1] = Event("progress", "created")) =>
                      /\ \E i \in DOMAIN st.events :
                            st.events[i] = Event("progress", "run")
                      /\ st.events[Len(st.events)] = Event("completed", ProcessorResult)

\* C26: a job type without a processor is answered with an error status, and
\* the step that answers a submission with an error leaves the registry, the
\* job objects and the dispatch queue as they were.
C26_UnknownTypeRejected ==
    /\ [](\A t \in JobTypes :
             get_processor(t) = "ValueError" => create_job_reply(t).code >= 400)
    /\ [][rejected' # rejected =>
             (jobs' = jobs /\ job' = job /\ queue' = queue)]_vars

\* a submission was rejected while one accepted job was in the registry and in
\* the queue, and they are all there is
C26_Witness ==
    /\ rejected = 1
    /\ jobs = {1}
    /\ Len(job) = 1
    /\ queue = <<1>>

\* the workers that hold the task of job j
Holders(j) == {w \in DOMAIN workers : workers[w].pc = "await" /\ workers[w].job = j}

\* C27: the processor of a job is invoked at most once; at most one worker
\* holds the task of a job; a job is in the dispatch queue at most once, and
\* while it is there no task was ever created for it and no worker holds it;
\* and a worker takes up only a job for which no task was ever created.
C27_AtMostOnce ==
    /\ [](\A j \in DOMAIN job :
             /\ invocations[j] <= 1
             /\ Cardinality(Holders(j)) <= 1
             /\ Cardinality({i \in DOMAIN queue : queue[i] = j}) <= 1
             /\ (\E i \in DOMAIN queue : queue[i] = j) =>
                    (task[j] = "none" /\ Holders(j) = {}))
    /\ [][\A w \in DOMAIN workers :
             (workers'[w] # workers[w] /\ workers'[w].pc = "await") =>
                 task[workers'[w].job] = "none"]_vars

\* two workers hold the tasks of two different jobs, each invoked once
C27_Witness ==
    /\ Len(workers) = 2
    /\ workers[1].pc = "await"
    /\ workers[2].pc = "await"
    /\ workers[1].job # workers[2].job
    /\ invocations = <<1, 1>>

\* C28: while no submission has been accepted there is no dispatch queue and
\* no worker loop; once one has been accepted, and after every further one,
\* there are the queue and exactly max_concurrent worker loops; and the queue,
\* once created, stays.
C28_LazyPool ==
    /\ [](IF Len(job) = 0
            THEN ~queue_created /\ ~workers_started /\ workers = <<>> /\ queue = <<>>
          ELSE queue_created /\ workers_started /\ Len(workers) = max_concurrent)
    /\ [][queue_created => queue_created']_vars

\* after the second submission there are still two worker loops, not four
C28_Witness ==
    /\ Len(job) = 2
    /\ max_concurrent = 2
    /\ Len(workers) = 2
    /\ queue_created

\* C29: for max_concurrent 1 and 2, the dispatch queue holds the jobs in the
\* order of their submission, a submission adds its job at the tail, and the
\* only other change of the queue is a worker taking up the job at its head:
\* jobs leave the queue in the order they entered it.  (That they may become
\* terminal in another order is shown by the witness.)
C29_DequeueOrder ==
    /\ [](\A i, k \in DOMAIN queue : i < k => queue[i] < queue[k])
    /\ [][queue' # queue =>
             \/ /\ Len(job') = Len(job) + 1
                /\ queue' = Append(queue, Len(job'))
             \/ /\ queue # <<>>
                /\ queue' = Tail(queue)
                /\ \E w \in DOMAIN workers :
                      /\ workers'[w] # workers[w]
                      /\ workers'[w] = [pc |-> "await", job |-> Head(queue)]]_vars

\* with two workers, job 2 has completed while job 1, dequeued and started
\* before it, is still being processed
C29_Witness ==
    /\ max_concurrent = 2
    /\ processing_order = <<1, 2>>
    /\ job[1].status = "processing"
    /\ job[2].status = "completed"

\* C30: in every reachable state a job has a result only if its status is
\* COMPLETED, and an error only if its status is FAILED, CANCELLED or KILLED.
C30_ResultErrorPresence ==
    \A j \in DOMAIN job :
        /\ job[j].result # "None" => job[j].status = "completed"
        /\ job[j].error # "None" => job[j].status \in {"failed", "cancelled", "killed"}

\* one job completed with its result and no error, another was killed with an
\* error and no result
C30_Witness ==
    \E i, k \in DOMAIN job :
        /\ job[i].status = "completed"
        /\ job[i].result = ProcessorResult
        /\ job[i].error = "None"
        /\ job[k].status = "killed"
        /\ job[k].error = "Job matado por el usuario"
        /\ job[k].result = "None"

\* C31: cancel on a PENDING or PROCESSING job and kill on a job that is not
\* COMPLETED, FAILED or KILLED leave the cancellation flag set; a flag that is
\* set stays set over every step; and while it is set is_cancelled() is true.
C31_StickyFlag ==
    /\ [](\A j \in DOMAIN job :
             /\ job[j].cancelled => is_cancelled(job[j])
             /\ job[j].status \in {"pending", "processing"} =>
                    cancel_record(job[j]).cancelled
             /\ (j \in jobs /\ job[j].status \notin {"completed", "failed", "killed"}) =>
                    kill_record(j).cancelled)
    /\ [][\A j \in DOMAIN job : job[j].cancelled => job'[j].cancelled]_vars

\* the flag of a job that was started and killed is still set after the kill
\* call returned and the worker finished the job
C31_Witness ==
    \E j \in DOMAIN job :
        /\ job[j].cancelled
        /\ job[j].status = "killed"
        /\ invocations[j] = 1
        /\ ~job[j].has_task
        /\ kill_wait[j] = 0

\* C32 (as claimed): in every reachable state a job in a terminal status has
\* no processing task assigned.
C32_NoHandleWhenTerminal ==
    \A j \in DOMAIN job : job[j].status \in TerminalStatuses => ~job[j].has_task

\* the workers between queue.get() and the end of their job
Busy == {w \in DOMAIN workers : workers[w].pc = "await"}

\* C33: in every reachable state the in-flight counter equals the number of
\* workers between dequeue and finish, lies between 0 and max_concurrent, is at
\* least the number of jobs in status PROCESSING, and is 0 when every worker
\* waits on the empty queue; a worker that takes up a job from the wait raises
\* it by one, and a worker that ends a job and finds the queue empty lowers it
\* by one, whatever the outcome of the job.
C33_InFlightCounter ==
    /\ [](/\ processing_count = Cardinality(Busy)
          /\ 0 <= processing_count
          /\ processing_count <= max_concurrent
          /\ processing_count >= Cardinality(Processing)
          /\ (Busy = {} /\ queue = <<>>) => processing_count = 0)
    /\ [][\A w \in DOMAIN workers :
             /\ (workers[w].pc = "get" /\ workers'[w].pc = "await") =>
                    processing_count' = processing_count + 1
             /\ (workers[w].pc = "await" /\ workers'[w].pc = "get") =>
                    processing_count' = processing_count - 1]_vars

\* one job failed and one was killed, every worker is back at the queue and
\* the counter is 0
C33_Witness ==
    /\ Len(job) = 2
    /\ job[1].status = "failed"
    /\ job[2].status = "killed"
    /\ invocations = <<1, 1>>
    /\ Busy = {}
    /\ processing_count = 0

\* C34: when kill has cancelled the task of a job, the worker that holds the
\* job eventually lets go of it, whether or not the processor ever returns or
\* checks for cancellation; and with max_concurrent = 1 a job that is queued
\* behind it eventually has its processor invoked, unless it was itself
\* cancelled or killed first.
C34_KilledJobReleasesSlot ==
    /\ \A j \in Ids :
          (j \in DOMAIN job /\ task[j] = "cancelling") ~> (Holders(j) = {})
    /\ (/\ max_concurrent = 1
        /\ Len(job) = 2
        /\ task[1] = "cancelling"
        /\ queue = <<2>>) ~> (/\ Len(job) >= 2
                              /\ invocations[2] = 1 \/ is_cancelled(job[2]))

\* with one worker: job 1 was killed while its processor, which still runs,
\* never reported; job 2 is being processed
C34_Witness ==
    /\ max_concurrent = 1
    /\ Len(job) = 2
    /\ job[1].status = "killed"
    /\ thread[1] = "running"
    /\ reports[1] = 0
    /\ job[2].status = "processing"
    /\ invocations[2] = 1

\* C35: when the event loop keeps running and every invoked processor
\* eventually returns or raises, every job that was created and queued is
\* eventually in a terminal status.
C35_EveryJobEnds ==
    \A j \in Ids :
        (j \in DOMAIN job) ~> (j \in DOMAIN job /\ job[j].status \in TerminalStatuses)

\* two jobs were processed to their end, one completed and one failed, and
\* the workers wait on the empty queue
C35_Witness ==
    /\ Len(job) = 2
    /\ job[1].status = "completed"
    /\ job[2].status = "failed"
    /\ queue = <<>>
    /\ Busy = {}

\* C36 (as claimed): a stream yields a heartbeat only in a step taken while the
\* job's status is PENDING or PROCESSING, from its wait, with nothing in its
\* queue, and that step leaves every job as it was; and no heartbeat follows a
\* final event in what a stream has yielded.
C36_Heartbeat ==
    /\ [](\A s \in DOMAIN streams :
             \A i, k \in DOMAIN streams[s].events :
                 (i < k /\ streams[s].events[i][1] \in TerminalEvents) =>
                     streams[s].events[k][1] # "heartbeat")
    /\ [][\A s \in DOMAIN streams :
             Heartbeats(streams'[s]) > Heartbeats(streams[s]) =>
                 /\ job[streams[s].job].status \in {"pending", "processing"}
                 /\ streams[s].pc = "waiting"
                 /\ streams[s].queue = <<>>
                 /\ job' = job]_vars

\* the subscribers of job j that were registered when the last loop over the
\* callbacks began and are registered still
RegisteredThroughout(j) ==
    {s \in DOMAIN streams :
        /\ \E i \in DOMAIN cb_hist[j].begin : cb_hist[j].begin[i] = s
        /\ \E i \in DOMAIN callbacks[j] : callbacks[j][i] = s}

\* the number of times that loop called the callback of stream s
TimesCalled(j, s) ==
    Cardinality({i \in DOMAIN cb_hist[j].called : cb_hist[j].called[i] = s})

\* C37: when a report's loop over the callbacks of a job is over, every subscriber
\* that was registered from the start of the loop until now has been called exactly
\* once, whatever other subscribers attached or detached meanwhile.
C37_EachSubscriberOnce ==
    \A j \in DOMAIN job :
        (reports[j] > 0 /\ thread[j] # "notifying")
            => \A s \in RegisteredThroughout(j) : TimesCalled(j, s) = 1

\* C38: updated_at of a job is never earlier than its created_at and never
\* decreases, and every step that changes the job's status or its progress
\* snapshot leaves updated_at at the time of the step.
C38_UpdatedAtRefreshed ==
    /\ [](\A j \in DOMAIN job : job[j].updated_at >= job[j].created_at)
    /\ [][\A j \in DOMAIN job :
             /\ job'[j].updated_at >= job[j].updated_at
             /\ (job'[j].status # job[j].status \/ job'[j].progress # job[j].progress)
                   => job'[j].updated_at = now']_vars

\* time has passed since the two jobs were created; one was then run to completion
\* by a worker and a progress report, the other killed, and both carry the later time
C38_Witness ==
    /\ Len(job) = 2
    /\ now > job[1].created_at
    /\ job[1].status = "completed" /\ reports[1] = 1 /\ job[1].updated_at = now
    /\ job[2].status = "killed" /\ job[2].updated_at = now

\* job j is in the dispatch queue
Queued(j) == \E i \in DOMAIN queue : queue[i] = j

\* C39: a step that only takes jobs out of the registry leaves the dispatch
\* queue, the workers, the tasks, the executor threads and the in-flight counter
\* as they were; a job that is out of the registry while PENDING and queued is
\* later held by a worker with its processor invoked; a job that is out of the
\* registry while its processor runs ends COMPLETED or FAILED.
C39_DeleteStopsNothing ==
    /\ [][(jobs' \subseteq jobs /\ jobs' # jobs)
            => /\ queue' = queue /\ workers' = workers /\ task' = task
               /\ thread' = thread /\ job' = job
               /\ processing_count' = processing_count]_vars
    /\ \A j \in Ids :
          (/\ j \in DOMAIN job /\ j \notin jobs /\ Queued(j)
           /\ job[j].status = "pending" /\ ~job[j].cancelled)
             ~> (/\ j \in DOMAIN job /\ j \notin jobs
                 /\ invocations[j] = 1 /\ Holders(j) # {})
    /\ \A j \in Ids :
          (/\ j \in DOMAIN job /\ j \notin jobs /\ thread[j] = "running"
           /\ job[j].status = "processing" /\ ~job[j].cancelled
           /\ task[j] # "cancelling")
             ~> (/\ j \in DOMAIN job /\ j \notin jobs
                 /\ job[j].status \in {"completed", "failed"})

\* both jobs were deleted: the first while its processor runs, the second while it
\* waits in the queue
C39_Witness ==
    /\ Len(job) = 2
    /\ jobs = {}
    /\ job[1].status = "processing" /\ thread[1] = "running"
    /\ job[2].status = "pending" /\ queue = <<2>>

\* C40: a progress report of a processor that is still running on a job whose
\* status is terminal changes neither the job's progress snapshot nor its
\* updated_at.
C40_NoLateProgress ==
    [][\A j \in DOMAIN job :
          (job[j].status \in TerminalStatuses /\ reports'[j] # reports[j])
            => /\ job'[j].progress = job[j].progress
               /\ job'[j].updated_at = job[j].updated_at]_vars

====
